---- MODULE Spec2Model ----
(***************************************************************************)
(* PivotPath career advisor (src/app.py): the artifact load phase, the     *)
(* validation gate, salary resolution with its heuristic fallback, the     *)
(* career-suggestion preview and the role content lookups.                 *)
(***************************************************************************)
EXTENDS Integers, Sequences, FiniteSets, TLC

(***************************************************************************)
(* Python values.  None is Python's None; a dict is a function whose       *)
(* DOMAIN is its key set.                                                  *)
(***************************************************************************)
None == [type |-> "NoneType"]

\* a name that no statement has bound yet
Unbound == [type |-> "unbound"]

PyInt(n) == [type |-> "int", v |-> n]

PyList(s) == [type |-> "list", items |-> s]

PyDict(f) == [type |-> "dict", d |-> f]

\* an unpickled artifact (model, scaler, encoder)
PyObject(kind) == [type |-> kind]

\* Python truth value of the objects above
Truthy(v) ==
    /\ v.type # "NoneType"
    /\ (v.type = "list" => v.items # <<>>)
    /\ (v.type = "int" => v.v # 0)

Get(d, k, default) == IF k \in DOMAIN d THEN d[k] ELSE default

Min(a, b) == IF a <= b THEN a ELSE b

Range(s) == {s[i] : i \in DOMAIN s}

(***************************************************************************)
(* Python float arithmetic (IEEE-754 binary64, round to nearest, ties to   *)
(* even) on non-negative values.  A float is [m, e] with value m * 2^e,    *)
(* m a natural number of at most MantBits bits.  Naturals wider than 32    *)
(* bits are little-endian sequences of limbs below LimbBase.               *)
(***************************************************************************)
MantBits == 53

LimbBase == 2^15

RECURSIVE Strip(_)
Strip(a) ==
    IF a = <<>> THEN a
    ELSE IF a[Len(a)] = 0 THEN Strip(SubSeq(a, 1, Len(a) - 1)) ELSE a

RECURSIVE BigFromInt(_)
BigFromInt(n) ==
    IF n = 0 THEN <<>> ELSE <<n % LimbBase>> \o BigFromInt(n \div LimbBase)

RECURSIVE BigToInt(_)
BigToInt(a) ==
    IF a = <<>> THEN 0 ELSE Head(a) + LimbBase * BigToInt(Tail(a))

RECURSIVE BigAddC(_, _, _)
BigAddC(a, b, c) ==
    IF a = <<>> /\ b = <<>> THEN (IF c = 0 THEN <<>> ELSE <<c>>)
    ELSE LET x == IF a = <<>> THEN 0 ELSE Head(a)
             y == IF b = <<>> THEN 0 ELSE Head(b)
             s == x + y + c
         IN  <<s % LimbBase>>
               \o BigAddC(IF a = <<>> THEN a ELSE Tail(a),
                          IF b = <<>> THEN b ELSE Tail(b),
                          s \div LimbBase)

BigAdd(a, b) == Strip(BigAddC(a, b, 0))

RECURSIVE BigMulSmallC(_, _, _)
BigMulSmallC(a, k, c) ==
    IF a = <<>> THEN BigFromInt(c)
    ELSE LET p == Head(a) * k + c
         IN  <<p % LimbBase>> \o BigMulSmallC(Tail(a), k, p \div LimbBase)

BigMulSmall(a, k) == Strip(BigMulSmallC(a, k, 0))

RECURSIVE BigMul(_, _)
BigMul(a, b) ==
    IF b = <<>> THEN <<>>
    ELSE BigAdd(BigMulSmall(a, Head(b)), Strip(<<0>> \o BigMul(a, Tail(b))))

DivStep(hi, head, d) ==
    LET cur == hi.r * LimbBase + head
    IN  [q |-> <<cur \div d>> \o hi.q, r |-> cur % d]

\* quotient and remainder of a by a small d, from the top limb down
RECURSIVE BigDivSmall(_, _)
BigDivSmall(a, d) ==
    IF a = <<>> THEN [q |-> <<>>, r |-> 0]
    ELSE DivStep(BigDivSmall(Tail(a), d), Head(a), d)

RECURSIVE BitLenInt(_)
BitLenInt(n) == IF n = 0 THEN 0 ELSE 1 + BitLenInt(n \div 2)

LimbBits == BitLenInt(LimbBase - 1)

BitLen(a) ==
    IF a = <<>> THEN 0 ELSE LimbBits * (Len(a) - 1) + BitLenInt(a[Len(a)])

Zeros(n) == [i \in 1..n |-> 0]

BigShl(a, k) ==
    IF a = <<>> THEN a
    ELSE Zeros(k \div LimbBits) \o BigMulSmall(a, 2^(k % LimbBits))

\* floor(a / 2^k), and whether a bit was shifted out (s)
BigShrFloor(a, k) ==
    LET L    == Min(k \div LimbBits, Len(a))
        d    == BigDivSmall(SubSeq(a, L + 1, Len(a)), 2^(k % LimbBits))
        lost == d.r # 0 \/ \E i \in 1..L : a[i] # 0
    IN  [q |-> Strip(d.q), s |-> IF lost THEN 1 ELSE 0]

\* a shifted right by k >= 1 bits, with the last bit shifted out (g) and
\* whether any earlier one, or the incoming sticky bit, was set (s)
BigShr(a, k, sticky) ==
    LET f == BigShrFloor(a, k - 1)
        h == BigDivSmall(f.q, 2)
    IN  [q |-> Strip(h.q), g |-> h.r,
         s |-> IF f.s = 1 \/ sticky = 1 THEN 1 ELSE 0]

IsOdd(a) == a # <<>> /\ Head(a) % 2 = 1

\* the float nearest to n * 2^e (plus a fraction of the last bit of n when
\* sticky = 1), ties to even
RoundToFloat(n, e, sticky) ==
    LET k == BitLen(n) - MantBits
    IN  IF k <= 0 THEN [m |-> n, e |-> e]
        ELSE LET sh == BigShr(n, k, sticky)
                 up == sh.g = 1 /\ (sh.s = 1 \/ IsOdd(sh.q))
                 m1 == IF up THEN BigAdd(sh.q, <<1>>) ELSE sh.q
             IN  IF BitLen(m1) > MantBits
                 THEN [m |-> Strip(BigDivSmall(m1, 2).q), e |-> e + k + 1]
                 ELSE [m |-> m1, e |-> e + k]

\* float(n) of a Python int
FloatOfInt(n) == [m |-> BigFromInt(n), e |-> 0]

\* the float a decimal literal num/den denotes
FloatOfRatio(num, den) ==
    LET sh == MantBits + BitLenInt(den) + 2
        d  == BigDivSmall(BigShl(BigFromInt(num), sh), den)
    IN  RoundToFloat(Strip(d.q), 0 - sh, IF d.r = 0 THEN 0 ELSE 1)

FMul(x, y) == RoundToFloat(BigMul(x.m, y.m), x.e + y.e, 0)

FAdd(x, y) ==
    LET e == Min(x.e, y.e)
    IN  RoundToFloat(BigAdd(BigShl(x.m, x.e - e), BigShl(y.m, y.e - e)), e, 0)

\* int(x): truncation
IntOfFloat(x) ==
    IF x.e >= 0 THEN BigToInt(BigShl(x.m, x.e))
    ELSE BigToInt(BigShrFloor(x.m, 0 - x.e).q)

(***************************************************************************)
(* Fallback heuristic: role-based base salaries (INR)                      *)
(***************************************************************************)
BASE_BY_ROLE_INR ==
    [r \in {"Data Scientist", "Frontend Engineer", "System Administrator",
            "UI/UX Designer", "Product Manager", "Junior Data Analyst",
            "Frontend Developer", "Technical Support Engineer",
            "Junior UI/UX Designer", "Marketing Analyst"} |->
        CASE r = "Data Scientist" -> 900000
          [] r = "Frontend Engineer" -> 700000
          [] r = "System Administrator" -> 500000
          [] r = "UI/UX Designer" -> 600000
          [] r = "Product Manager" -> 1000000
          [] r = "Junior Data Analyst" -> 350000
          [] r = "Frontend Developer" -> 650000
          [] r = "Technical Support Engineer" -> 300000
          [] r = "Junior UI/UX Designer" -> 350000
          [] r = "Marketing Analyst" -> 350000]

DefaultBaseInr == 450000

ExperienceCap == 10

\* the literal 0.06
RatePerYear == FloatOfRatio(6, 100)

\* int(base * (1 + min(years_exp, 10) * 0.06))
HeuristicSalary(role, years) ==
    IntOfFloat(
        FMul(FloatOfInt(Get(BASE_BY_ROLE_INR, role, DefaultBaseInr)),
             FAdd(FloatOfInt(1),
                  FMul(FloatOfInt(Min(years, ExperienceCap)), RatePerYear))))

(***************************************************************************)
(* Role content tables                                                     *)
(***************************************************************************)
\* the keys of ROLE_SKILL_GAPS in insertion order: the role selector's options
ROLE_KEYS ==
    <<"Data Scientist",
      "Frontend Engineer",
      "System Administrator",
      "UI/UX Designer",
      "Product Manager",
      "Junior Data Analyst",
      "Frontend Developer",
      "Technical Support Engineer",
      "Junior UI/UX Designer",
      "Marketing Analyst">>

ROLE_SKILL_GAPS ==
    ("Data Scientist" :>
        <<"Python (Pandas, NumPy)",
          "SQL & Data querying",
          "Machine Learning fundamentals",
          "Data visualization (Matplotlib/Seaborn)",
          "Model deployment (Flask/Streamlit)">>)
    @@ ("Frontend Engineer" :>
        <<"JavaScript (ES6+)",
          "React fundamentals",
          "HTML/CSS responsive design",
          "Web performance & accessibility",
          "Frontend testing (Jest)">>)
    @@ ("System Administrator" :>
        <<"Linux fundamentals",
          "Shell scripting",
          "Networking basics",
          "Cloud fundamentals (AWS/GCP)",
          "Monitoring & troubleshooting">>)
    @@ ("UI/UX Designer" :>
        <<"Design thinking & user research",
          "Figma/Sketch/Adobe XD",
          "Wireframing & prototyping",
          "Interaction design",
          "Storytelling & presentation">>)
    @@ ("Product Manager" :>
        <<"User research & product discovery",
          "Roadmapping & prioritization",
          "Stakeholder communication",
          "Metrics & experimentation",
          "Basic data analysis">>)
    @@ ("Junior Data Analyst" :>
        <<"Excel & spreadsheets",
          "SQL basics",
          "Data cleaning & EDA",
          "Basic visualization",
          "Presentation skills">>)
    @@ ("Frontend Developer" :>
        <<"HTML/CSS/JS",
          "React or Vue",
          "Component architecture",
          "State management",
          "Testing">>)
    @@ ("Technical Support Engineer" :>
        <<"Troubleshooting fundamentals",
          "Customer communication",
          "Product knowledge",
          "Basic networking",
          "Scripting for automation">>)
    @@ ("Junior UI/UX Designer" :>
        <<"Figma basics",
          "Wireframing",
          "Basic prototyping",
          "Usability heuristics",
          "Design critique">>)
    @@ ("Marketing Analyst" :>
        <<"Excel & Google Sheets",
          "Basic statistics",
          "Data visualization",
          "Marketing analytics tools",
          "Campaign measurement">>)

\* ROLE_COURSES as the dict literal leaves it
ROLE_COURSES_LITERAL ==
    ("Data Scientist" :>
        <<[platform |-> "Coursera", course |-> "Python for Data Science", duration |-> "4 weeks"],
          [platform |-> "Udemy", course |-> "Machine Learning Bootcamp", duration |-> "6 weeks"],
          [platform |-> "YouTube", course |-> "Data Viz with Tableau", duration |-> "3 weeks"]>>)
    @@ ("UI/UX Designer" :>
        <<[platform |-> "Coursera", course |-> "UI/UX Specialization", duration |-> "6 weeks"],
          [platform |-> "YouTube", course |-> "Design system tutorials", duration |-> "2 weeks"],
          [platform |-> "Udemy", course |-> "Figma practical projects", duration |-> "4 weeks"]>>)

ROLE_ROADMAP ==
    ("Data Scientist" :>
        [Assess |-> "Review Python, SQL, portfolio, machine learning basics.",
         Learn |-> "Complete ML courses (Supervised, Unsupervised), Stats, EDA.",
         Build |-> "Create 4 ML projects - Regression, Classification, NLP, Deployment.",
         Profile |-> "Publish Kaggle notebooks, GitHub repos & LinkedIn posts.",
         Apply |-> "Apply to DS roles, practice ML system design interviews."])
    @@ ("Frontend Engineer" :>
        [Assess |-> "Evaluate HTML, CSS, JS, React fundamentals.",
         Learn |-> "Master React, Hooks, State mgmt, API integration.",
         Build |-> "Build 3-5 responsive websites + React apps.",
         Profile |-> "Deploy on Netlify/Vercel, share UI case studies.",
         Apply |-> "Apply with live websites + GitHub portfolio."])
    @@ ("System Administrator" :>
        [Assess |-> "Check Linux knowledge, shell scripting, networking basics.",
         Learn |-> "Study Linux, Bash, AWS, monitoring tools.",
         Build |-> "Build server configs, automate tasks, deploy scripts.",
         Profile |-> "Document troubleshooting cases, publish scripts on GitHub.",
         Apply |-> "Apply to SysAdmin/IT roles & take tech support interviews."])
    @@ ("UI/UX Designer" :>
        [Assess |-> "Evaluate Figma, wireframing, user research skills.",
         Learn |-> "Practice UX case studies, interaction design, heuristics.",
         Build |-> "Create 3 UI/UX case studies + mobile/web prototypes.",
         Profile |-> "Publish Dribbble/Figma/Behance portfolio.",
         Apply |-> "Apply for UI/UX Intern/Junior roles with strong portfolio."])
    @@ ("Product Manager" :>
        [Assess |-> "Check communication, research, analytics & docs skills.",
         Learn |-> "Study PRDs, user stories, Agile, prioritization frameworks.",
         Build |-> "Create 2 product case studies + a product roadmap.",
         Profile |-> "Publish PM case studies & feature breakdowns.",
         Apply |-> "Apply for APM roles, complete PM interview practice."])
    @@ ("Junior Data Analyst" :>
        [Assess |-> "Assess Excel, SQL, dashboarding skills.",
         Learn |-> "Take courses in SQL, Power BI/Tableau, statistics.",
         Build |-> "Create 3 dashboards + 2 data cleaning projects.",
         Profile |-> "Upload dashboards to LinkedIn & GitHub.",
         Apply |-> "Apply for Data Analyst Intern/Junior roles."])
    @@ ("Frontend Developer" :>
        [Assess |-> "Check React, HTML, JS, responsiveness knowledge.",
         Learn |-> "React advanced concepts + CSS frameworks (Tailwind).",
         Build |-> "Build 4-6 UI clones & dynamic web apps.",
         Profile |-> "Deploy projects, share UI/UX improvements.",
         Apply |-> "Apply with portfolio & GitHub repos."])
    @@ ("Technical Support Engineer" :>
        [Assess |-> "Assess troubleshooting, communication & software basics.",
         Learn |-> "Study OS basics, networking, ticket systems.",
         Build |-> "Create documentation tutorials & automation scripts.",
         Profile |-> "Show real scenarios & solutions in resume.",
         Apply |-> "Apply to L1 support roles, practice customer interaction."])
    @@ ("Junior UI/UX Designer" :>
        [Assess |-> "Check Figma basics, wireframing, UX research understanding.",
         Learn |-> "Learn design principles, layouts, typography.",
         Build |-> "Make 3 beginner-friendly app/web redesigns.",
         Profile |-> "Publish Behance/Figma case studies.",
         Apply |-> "Apply for entry UI/UX roles."])
    @@ ("Marketing Analyst" :>
        [Assess |-> "Check analytics tools, Excel, reports knowledge.",
         Learn |-> "Study Google Analytics, basic statistics, dashboards.",
         Build |-> "Create 3-5 campaign analysis projects.",
         Profile |-> "Publish dashboard snapshots & insights.",
         Apply |-> "Apply for junior marketing/analytics roles."])

DEFAULT_ROLE == "Data Scientist"

\* dict.setdefault
SetDefault(d, k, v) == IF k \in DOMAIN d THEN d ELSE d @@ (k :> v)

\* for r in ROLE_SKILL_GAPS.keys(): ROLE_COURSES.setdefault(r, ...)
RECURSIVE FillCourses(_, _)
FillCourses(d, keys) ==
    IF keys = <<>> THEN d
    ELSE FillCourses(
             SetDefault(d, Head(keys),
                        Get(d, Head(keys), Get(d, DEFAULT_ROLE, None))),
             Tail(keys))

ROLE_COURSES == FillCourses(ROLE_COURSES_LITERAL, ROLE_KEYS)

\* the lookup with an empty default
skill_gaps_no_default(role) == Get(ROLE_SKILL_GAPS, role, <<>>)

skill_gaps(role) == Get(ROLE_SKILL_GAPS, role, ROLE_SKILL_GAPS[DEFAULT_ROLE])

courses_for(role) == Get(ROLE_COURSES, role, ROLE_COURSES[DEFAULT_ROLE])

roadmap_for(role) == Get(ROLE_ROADMAP, role, ROLE_ROADMAP[DEFAULT_ROLE])

(***************************************************************************)
(* Sidebar inputs: the selectors' options, first the placeholder           *)
(***************************************************************************)
current_job_options == <<"Select current job">> \o ROLE_KEYS

target_job_options == <<"Select target job">> \o ROLE_KEYS

education_options ==
    <<"Select education", "Associate Degree in IT", "Bachelor's in IT",
      "Bachelor's in Computer Science", "Bachelor's in Design",
      "Bachelor's in Marketing", "MBA", "Bachelor's in Statistics">>

portfolio_options == <<"Select...", "Low", "Medium", "High">>

certification_options ==
    <<"Select...", "None", "AWS Certified", "Certified UX Designer",
      "DataCamp Track">>

language_options == <<"Select...", "Beginner", "Intermediate", "Advanced">>

remote_options == <<"Select...", "Onsite", "Hybrid", "Remote">>

(***************************************************************************)
(* Bounds of the model: the inputs a request is drawn from                 *)
(***************************************************************************)
\* years of experience range over 0..MaxYears where the heuristic is applied
\* to every role, and over the two ends of that range in a full request
MaxYears == 12

ProjectsSample == 3

CommSample == 7

\* the encoders registered are the first n of ENCODER_FILES, n <= MaxEncoders
MaxEncoders == 7

\* a salary model that answers predicts 0..MaxPredQuarters quarter dollars
MaxPredQuarters == 1

\* a career model that answers with a number predicts a label 0..MaxLabel
MaxLabel == 1

CurrentJobInputs == {current_job_options[1], "Product Manager"}

TargetJobInputs == {target_job_options[1], "Product Manager"}

EducationInputs == {education_options[1], "MBA"}

PortfolioInputs == {portfolio_options[1], "High"}

CertificationInputs == {certification_options[1], "None", "AWS Certified"}

LanguageInputs == {language_options[1], "Beginner"}

RemoteInputs == {remote_options[1], "Remote"}

\* a role that no table knows
UnknownRole == "DevOps Engineer"

(***************************************************************************)
(* Artifact files                                                          *)
(***************************************************************************)
\* the encoder files in load order, each with name.replace("_encoder.pkl", "")
ENCODER_FILES ==
    <<[file |-> "current_job_title_encoder.pkl", key |-> "current_job_title"],
      [file |-> "target_job_title_encoder.pkl", key |-> "target_job_title"],
      [file |-> "education_level_encoder.pkl", key |-> "education_level"],
      [file |-> "portfolio_strength_encoder.pkl", key |-> "portfolio_strength"],
      [file |-> "certifications_encoder.pkl", key |-> "certifications"],
      [file |-> "language_proficiency_encoder.pkl",
       key |-> "language_proficiency"],
      [file |-> "remote_work_preference_encoder.pkl",
       key |-> "remote_work_preference"]>>

PICKLE_FILES ==
    {"salary_model.pkl", "career_recommender.pkl", "scaler.pkl"}
        \cup {ENCODER_FILES[i].file : i \in DOMAIN ENCODER_FILES}

JSON_FILES == {"feature_columns_salary.json", "feature_columns_career.json"}

\* feature schemas as the JSON files may hold them
SalaryFeatureColumns ==
    <<"current_job_title", "target_job_title", "education_level",
      "portfolio_strength", "certifications", "language_proficiency",
      "remote_work_preference", "years_of_experience", "projects_completed",
      "communication_skills_rating", "skill_count", "estimated_salary_usd">>

CareerFeatureColumns ==
    <<"current_job_title", "years_of_experience", "education_level",
      "target_job_title">>

\* what a file holds: nothing (absent), bytes that do not deserialize, or an
\* object
AbsentFile == [st |-> "absent", obj |-> None]

UnreadableFile == [st |-> "unreadable", obj |-> None]

GoodFile(obj) == [st |-> "ok", obj |-> obj]

PickleContents(f) == {AbsentFile, UnreadableFile, GoodFile(PyObject(f))}

JsonContents(f) ==
    {AbsentFile, UnreadableFile, GoodFile(PyList(<<>>)),
     GoodFile(PyList(IF f = "feature_columns_salary.json"
                     THEN SalaryFeatureColumns ELSE CareerFeatureColumns))}

(***************************************************************************)
(* Helper: file-safe loading                                               *)
(***************************************************************************)
\* joblib.load in try/except (the second definition, which shadows the
\* first; both return None on any exception)
safe_load_pickle(content) == IF content.st = "ok" THEN content.obj ELSE None

load_json(content) == IF content.st = "ok" THEN content.obj ELSE None

\* the function names the module has bound when the load phase runs
DefinedFunctions == {"safe_load_pickle", "load_json"}

\* a call by name: NameError when the name is not bound
CallLoader(fn, content) ==
    IF fn \in DefinedFunctions
    THEN [raised |-> FALSE, val |-> safe_load_pickle(content)]
    ELSE [raised |-> TRUE, val |-> None]

EmptyDict == [k \in {} |-> None]

\* the loop of lines 57-68 from file i on: the registry it builds, or the
\* exception that ends it
RECURSIVE EncoderLoop(_, _, _)
EncoderLoop(files, i, acc) ==
    IF i > Len(ENCODER_FILES) THEN [raised |-> FALSE, encoders |-> acc]
    ELSE LET r == CallLoader("safe_load_joblib", files[ENCODER_FILES[i].file])
         IN  IF r.raised THEN [raised |-> TRUE, encoders |-> acc]
             ELSE EncoderLoop(files, i + 1,
                      IF r.val # None
                      THEN acc @@ (ENCODER_FILES[i].key :> r.val)
                      ELSE acc)

(***************************************************************************)
(* State                                                                   *)
(***************************************************************************)
VARIABLES
    pc,                  \* the statement the script run has reached
    files,               \* what each artifact file holds
    salary_model, career_model, scaler, encoders, feat_salary, feat_career,
    analyze,             \* the "Get Career Analysis" button
    current_job, target_job, education, portfolio_strength, certifications,
    language_proficiency, remote_pref, years_exp, projects_completed,
    comm_rating,
    errors,              \* validation messages, in order
    X,                   \* salary feature row
    predicted_salary_inr,
    salary_log,          \* what salary resolution invoked, and what raised
    shown_salary,        \* the salary card, and the branch that produced it
    recommended_role,    \* "Recommended role (user-chosen)"
    Xin,                 \* career feature row
    model_suggestion,    \* the "Model's suggestion" line
    career_log,
    gaps, courses, roadmap

artifacts ==
    <<salary_model, career_model, scaler, encoders, feat_salary, feat_career>>

profile_vars ==
    <<analyze, current_job, target_job, education, portfolio_strength,
      certifications, language_proficiency, remote_pref, years_exp,
      projects_completed, comm_rating>>

salary_vars == <<X, predicted_salary_inr, salary_log, shown_salary>>

career_vars == <<recommended_role, Xin, model_suggestion, career_log>>

content_vars == <<gaps, courses, roadmap>>

vars ==
    <<pc, files, artifacts, profile_vars, errors, salary_vars, career_vars,
      content_vars>>

NoSalaryLog ==
    [attempted |-> FALSE, row_built |-> FALSE, enc_failed |-> {},
     scaler_called |-> FALSE, scaler_raised |-> FALSE,
     predict_called |-> FALSE, predict_raised |-> FALSE,
     convert_raised |-> FALSE, X_df |-> Unbound, salary_usd |-> None]

NoCareerLog ==
    [attempted |-> FALSE, row_raised |-> FALSE, scaler_called |-> FALSE,
     scaler_raised |-> FALSE, predict_called |-> FALSE,
     predict_raised |-> FALSE, decode_called |-> FALSE,
     decode_raised |-> FALSE, pred_label |-> "", Xin_df |-> Unbound]

NoSuggestion == [kind |-> "unset", text |-> ""]

NoRoadmap == [Assess |-> "", Learn |-> "", Build |-> "", Profile |-> "",
              Apply |-> ""]

\* nothing of a request has run
RequestUntouched ==
    /\ errors = <<>>
    /\ X = Unbound /\ predicted_salary_inr = Unbound
    /\ salary_log = NoSalaryLog /\ shown_salary = Unbound
    /\ recommended_role = "" /\ Xin = Unbound
    /\ model_suggestion = NoSuggestion /\ career_log = NoCareerLog
    /\ gaps = <<>> /\ courses = <<>> /\ roadmap = NoRoadmap

\* the widgets as the page first shows them
WidgetDefaults ==
    /\ analyze = FALSE
    /\ current_job = current_job_options[1]
    /\ target_job = target_job_options[1]
    /\ education = education_options[1]
    /\ portfolio_strength = portfolio_options[1]
    /\ certifications = certification_options[1]
    /\ language_proficiency = language_options[1]
    /\ remote_pref = remote_options[1]
    /\ years_exp = 0 /\ projects_completed = 0 /\ comm_rating = 5

(***************************************************************************)
(* The load phase of a script run (lines 52-71)                            *)
(***************************************************************************)
\* every encoder file is absent or loadable; the other files are also
\* allowed to hold bytes that do not deserialize
FileChoices(n) ==
    IF n \in {"salary_model.pkl", "career_recommender.pkl", "scaler.pkl"}
    THEN PickleContents(n)
    ELSE IF n = "feature_columns_salary.json"
    THEN {AbsentFile, GoodFile(PyList(SalaryFeatureColumns))}
    ELSE IF n = "feature_columns_career.json"
    THEN {AbsentFile, GoodFile(PyList(CareerFeatureColumns))}
    ELSE {AbsentFile, GoodFile(PyObject(n))}

\* the file systems with the given choice for each of the files in todo
RECURSIVE FileSystemsOver(_)
FileSystemsOver(todo) ==
    IF todo = {} THEN {EmptyDict}
    ELSE LET n == CHOOSE n \in todo : TRUE
         IN  {(n :> c) @@ f : c \in FileChoices(n),
                              f \in FileSystemsOver(todo \ {n})}

FileSystems == FileSystemsOver(PICKLE_FILES \cup JSON_FILES)

InitLoad ==
    /\ pc = "load_salary_model"
    /\ files \in FileSystems
    /\ salary_model = Unbound /\ career_model = Unbound /\ scaler = Unbound
    /\ encoders = EmptyDict /\ feat_salary = Unbound /\ feat_career = Unbound
    /\ WidgetDefaults
    /\ RequestUntouched

\* salary_model = safe_load_pickle(ASSET_DIR / "salary_model.pkl")
LoadSalaryModel ==
    /\ pc = "load_salary_model"
    /\ salary_model' = safe_load_pickle(files["salary_model.pkl"])
    /\ pc' = "load_career_model"
    /\ UNCHANGED <<files, career_model, scaler, encoders, feat_salary,
                   feat_career, profile_vars, errors, salary_vars,
                   career_vars, content_vars>>

\* career_model = safe_load_pickle(ASSET_DIR / "career_recommender.pkl")
LoadCareerModel ==
    /\ pc = "load_career_model"
    /\ career_model' = safe_load_pickle(files["career_recommender.pkl"])
    /\ pc' = "load_scaler"
    /\ UNCHANGED <<files, salary_model, scaler, encoders, feat_salary,
                   feat_career, profile_vars, errors, salary_vars,
                   career_vars, content_vars>>

\* scaler = safe_load_pickle(...) or safe_load_joblib(...): the right operand
\* is evaluated when the left one is falsy
LoadScaler ==
    /\ pc = "load_scaler"
    /\ LET first  == safe_load_pickle(files["scaler.pkl"])
           second == CallLoader("safe_load_joblib", files["scaler.pkl"])
       IN  IF Truthy(first)
           THEN scaler' = first /\ pc' = "load_encoders"
           ELSE IF second.raised
           THEN scaler' = scaler /\ pc' = "NameError"
           ELSE scaler' = second.val /\ pc' = "load_encoders"
    /\ UNCHANGED <<files, salary_model, career_model, encoders, feat_salary,
                   feat_career, profile_vars, errors, salary_vars,
                   career_vars, content_vars>>

\* encoders = {}; for name in [...]: enc = safe_load_joblib(...); ...
LoadEncoders ==
    /\ pc = "load_encoders"
    /\ LET loop == EncoderLoop(files, 1, EmptyDict)
       IN  /\ encoders' = loop.encoders
           /\ pc' = IF loop.raised THEN "NameError" ELSE "load_schemas"
    /\ UNCHANGED <<files, salary_model, career_model, scaler, feat_salary,
                   feat_career, profile_vars, errors, salary_vars,
                   career_vars, content_vars>>

\* The statements after the loop (feat_salary = load_json(...), line 70 on)
\* are never reached: the loop's first call raises.
NextLoad == LoadSalaryModel \/ LoadCareerModel \/ LoadScaler \/ LoadEncoders

SpecLoad == InitLoad /\ [][NextLoad]_vars

(***************************************************************************)
(* Opaque artifacts.  What a call of an encoder, the scaler or a model     *)
(* does is the environment's choice: it raises or it answers.  An encoder  *)
(* that answers is a label encoder over its selector's options; the scaler *)
(* that answers is a fixed affine map.                                     *)
(***************************************************************************)
EncoderClasses(name) ==
    CASE name = "education_level" ->
            SubSeq(education_options, 2, Len(education_options))
      [] name = "portfolio_strength" -> <<"High", "Low", "Medium">>
      [] name = "certifications" ->
            <<"AWS Certified", "Certified UX Designer", "DataCamp Track",
              "None">>
      [] name = "language_proficiency" ->
            <<"Advanced", "Beginner", "Intermediate">>
      [] name = "remote_work_preference" -> <<"Hybrid", "Onsite", "Remote">>
      [] OTHER -> ROLE_KEYS

\* int(enc.transform([value])[0]) when the encoder knows the value
EncoderTransform(name, value) ==
    LET classes == EncoderClasses(name)
    IN  (CHOOSE i \in DOMAIN classes : classes[i] = value) - 1

\* scaler.transform on a row
ScalerTransform(row) == [k \in DOMAIN row |-> 2 * row[k] + 1]

SalaryPredictions ==
    {[kind |-> "raise", q |-> 0], [kind |-> "nan", q |-> 0]}
        \cup {[kind |-> "value", q |-> n] : n \in 0..MaxPredQuarters}

\* a career model's answer: a numeric label, or a role name
CareerPredictions ==
    {[kind |-> "raise", label |-> 0, name |-> ""],
     [kind |-> "name", label |-> 0, name |-> "Frontend Engineer"]}
        \cup {[kind |-> "label", label |-> n, name |-> ""] : n \in 0..MaxLabel}

ConsultedEncoders == {"current_job_title", "target_job_title", "education_level"}

\* a call that is not made has no outcome to choose
Outcomes(called, choices, unused) == IF called THEN choices ELSE {unused}

\* the outcomes of the calls salary resolution makes: the encoder transforms
\* that raise, whether the scaler raises, what predict does
SalaryEnvs(sm, schema, sc, encs) ==
    LET called == Truthy(sm) /\ Truthy(schema)
        used   == IF called
                  THEN {n \in ConsultedEncoders \cap Range(schema.items) :
                          n \in DOMAIN encs /\ Truthy(encs[n])}
                  ELSE {}
    IN  [enc_raises : SUBSET used,
         scaler_raises : Outcomes(called /\ Truthy(sc), BOOLEAN, FALSE),
         predict : Outcomes(called, SalaryPredictions,
                            [kind |-> "raise", q |-> 0])]

\* the outcomes of the calls the career preview makes
CareerEnvs(cm, schema, sc, encs) ==
    LET called == Truthy(cm) /\ Truthy(schema)
        used   == IF called
                  THEN {n \in {"current_job_title"} \cap Range(schema.items) :
                          n \in DOMAIN encs /\ Truthy(encs[n])}
                  ELSE {}
        decode == called /\ "target_job_title" \in DOMAIN encs
    IN  [enc_raises : SUBSET used,
         scaler_raises : Outcomes(called /\ Truthy(sc), BOOLEAN, FALSE),
         predict : Outcomes(called, CareerPredictions,
                            [kind |-> "raise", label |-> 0, name |-> ""]),
         inverse_raises : Outcomes(decode, BOOLEAN, FALSE)]

Profile ==
    [current_job |-> current_job, target_job |-> target_job,
     education |-> education, portfolio_strength |-> portfolio_strength,
     certifications |-> certifications,
     language_proficiency |-> language_proficiency,
     remote_pref |-> remote_pref, years_exp |-> years_exp,
     projects_completed |-> projects_completed, comm_rating |-> comm_rating]

(***************************************************************************)
(* Validate inputs (lines 242-262)                                         *)
(***************************************************************************)
Append_if(seq, cond, msg) == IF cond THEN Append(seq, msg) ELSE seq

\* validation without the remote-preference check
ValidationErrorsNoRemote(p) ==
    Append_if(
     Append_if(
      Append_if(
       Append_if(
        Append_if(<<>>,
           p.current_job = "Select current job", "Choose your current job."),
          p.target_job = "Select target job", "Choose your target job."),
         p.education = "Select education", "Select your education level."),
        p.portfolio_strength = "Select...", "Select portfolio strength."),
       p.language_proficiency = "Select...", "Select language proficiency.")

ValidationErrors(p) ==
    Append_if(
     Append_if(
      Append_if(
       Append_if(
        Append_if(
         Append_if(<<>>,
            p.current_job = "Select current job", "Choose your current job."),
           p.target_job = "Select target job", "Choose your target job."),
          p.education = "Select education", "Select your education level."),
         p.portfolio_strength = "Select...", "Select portfolio strength."),
        p.language_proficiency = "Select...", "Select language proficiency."),
       p.remote_pref = "Select...", "Select remote preference.")

\* if certifications == "Select...": certifications = "None"  # accept None
AcceptedCertifications(c) == IF c = "Select..." THEN "None" ELSE c

(***************************************************************************)
(* Salary prediction (lines 293-394)                                       *)
(***************************************************************************)
\* the row builder skipping no column
NoTargetColumns == {}

SALARY_TARGET_COLUMNS == {"estimated_salary_usd"}

USD_TO_INR == 82

PORTFOLIO_MAPPING == ("Low" :> 0) @@ ("Medium" :> 1) @@ ("High" :> 2)

LANGUAGE_MAPPING == ("Beginner" :> 0) @@ ("Intermediate" :> 1) @@ ("Advanced" :> 2)

REMOTE_MAPPING == ("Onsite" :> 0) @@ ("Hybrid" :> 1) @@ ("Remote" :> 2)

\* enc = encoders.get(name); try int(enc.transform([value])[0]) except 0;
\* 0 without an encoder
EncodedOrZero(encs, name, value, raises) ==
    IF name \in DOMAIN encs /\ Truthy(encs[name])
    THEN IF name \in raises THEN 0 ELSE EncoderTransform(name, value)
    ELSE 0

\* the if/elif chain of lines 304-353
SalaryFeatureValue(feat, p, encs, raises) ==
    CASE feat = "current_job_title" ->
            EncodedOrZero(encs, feat, p.current_job, raises)
      [] feat = "target_job_title" ->
            EncodedOrZero(encs, feat, p.target_job, raises)
      [] feat = "education_level" ->
            EncodedOrZero(encs, feat, p.education, raises)
      [] feat = "portfolio_strength" ->
            Get(PORTFOLIO_MAPPING, p.portfolio_strength, 1)
      [] feat = "certifications" ->
            IF p.certifications = "None" THEN 0 ELSE 1
      [] feat = "language_proficiency" ->
            Get(LANGUAGE_MAPPING, p.language_proficiency, 1)
      [] feat = "remote_work_preference" ->
            Get(REMOTE_MAPPING, p.remote_pref, 0)
      [] feat = "years_of_experience" -> p.years_exp
      [] feat = "projects_completed" -> p.projects_completed
      [] feat = "communication_skills_rating" -> p.comm_rating
      [] OTHER -> 0

\* X = {}; for feat in feat_salary: ... X[feat] = val
SalaryRow(schema, p, encs, raises) ==
    [feat \in Range(schema) \ SALARY_TARGET_COLUMNS |->
        SalaryFeatureValue(feat, p, encs, raises)]

\* the encoder transforms the row's construction made that raised
SalaryEncodersRaised(schema, encs, raises) ==
    {n \in raises \cap ConsultedEncoders :
        n \in Range(schema) /\ n \in DOMAIN encs /\ Truthy(encs[n])}

\* if salary_model and feat_salary:
SalaryModelUsable(sm, schema) == Truthy(sm) /\ Truthy(schema)

\* the handlers "except Exception" of lines 365 and 372 catch what the
\* statements of their try blocks raise
\* the salary scaler call without its own handler
ScalerExceptMissing == FALSE

ScalerExceptCatches == TRUE

\* the salary try without its handler
SalaryExceptMissing == FALSE

SalaryExceptCatches == TRUE

\* except Exception: predicted_salary_inr = None
\* a handler that leaves a zero estimate
SalaryOnExceptionZero == PyInt(0)

SalaryOnException == None

\* if predicted_salary_inr is None:
NeedsFallback(v) == v = None

\* int(salary_usd * USD_TO_INR), salary_usd = float(q quarter dollars)
ModelSalaryInr(q) ==
    IntOfFloat(FMul([m |-> BigFromInt(q), e |-> 0 - 2], FloatOfInt(USD_TO_INR)))

\* The two conversions over the inputs at hand, each worked out once.
HeuristicSalaryOf ==
    [role \in Range(target_job_options) \cup {UnknownRole},
     years \in 0..MaxYears |-> HeuristicSalary(role, years)]

ModelSalaryInrOf == [q \in 0..MaxPredQuarters |-> ModelSalaryInr(q)]

\* The whole block: the try of lines 295-373, then the fallback of 376-391.
\* uncaught: an exception left the block.
SalaryBlock(sm, schema, sc, encs, p, env) ==
    LET attempted  == SalaryModelUsable(sm, schema)
        row        == SalaryRow(schema.items, p, encs, env.enc_raises)
        useScaler  == attempted /\ Truthy(sc)
        scalerBad  == useScaler /\ env.scaler_raises
        scalerLost == scalerBad /\ ~ScalerExceptCatches
        X_df       == IF useScaler /\ ~scalerBad THEN ScalerTransform(row)
                      ELSE row
        predicted  == attempted /\ ~scalerLost
        predictBad == predicted /\ env.predict.kind = "raise"
        convertBad == predicted /\ env.predict.kind = "nan"
        raised     == scalerLost \/ predictBad \/ convertBad
        uncaught   == raised /\ ~SalaryExceptCatches
        tried      == IF ~attempted THEN None
                      ELSE IF raised THEN SalaryOnException
                      ELSE PyInt(ModelSalaryInrOf[env.predict.q])
        fallback   == NeedsFallback(tried)
        final      == IF fallback
                      THEN PyInt(HeuristicSalaryOf[p.target_job, p.years_exp])
                      ELSE tried
    IN  [uncaught |-> uncaught,
         X        |-> IF attempted THEN PyDict(row) ELSE Unbound,
         salary   |-> IF uncaught THEN None ELSE final,
         source   |-> IF fallback THEN "HeuristicSalary"
                      ELSE "ModelDerivedSalary",
         log      |-> [attempted      |-> attempted,
                       row_built      |-> attempted,
                       enc_failed     |->
                           IF attempted
                           THEN SalaryEncodersRaised(schema.items, encs,
                                                     env.enc_raises)
                           ELSE {},
                       scaler_called  |-> useScaler,
                       scaler_raised  |-> scalerBad,
                       predict_called |-> predicted,
                       predict_raised |-> predictBad,
                       convert_raised |-> convertBad,
                       X_df           |-> IF predicted THEN PyDict(X_df)
                                          ELSE Unbound,
                       salary_usd     |->
                           IF predicted /\ env.predict.kind = "value"
                           THEN [type |-> "float", quarters |-> env.predict.q]
                           ELSE None]]

(***************************************************************************)
(* Career suggestion (lines 401-441)                                       *)
(***************************************************************************)
\* st.info(f"**Recommended role (user-chosen):** {target_job}")
PrimaryRole(target, suggestion) == target

\* Xin[feat] of lines 410-418, the encoder having answered
CareerFeatureValue(feat, p, encs) ==
    CASE feat = "target_job_title" -> 0
      [] feat = "current_job_title" ->
            IF feat \in DOMAIN encs /\ Truthy(encs[feat])
            THEN EncoderTransform(feat, p.current_job) ELSE 0
      [] feat = "years_of_experience" -> p.years_exp
      [] OTHER -> 0

CareerRow(schema, p, encs) ==
    [feat \in Range(schema) |-> CareerFeatureValue(feat, p, encs)]

\* the transform of line 414 is in no try of its own: it raises into the
\* block's handler
CareerRowRaises(schema, encs, raises) ==
    /\ "current_job_title" \in Range(schema)
    /\ "current_job_title" \in DOMAIN encs
    /\ Truthy(encs["current_job_title"])
    /\ "current_job_title" \in raises

\* if career_model and feat_career:
CareerModelUsable(cm, schema) == Truthy(cm) /\ Truthy(schema)

\* the career scaler call without its own handler
CareerScalerExceptMissing == FALSE

CareerScalerExceptCatches == TRUE

\* the career try without its handler
CareerExceptMissing == FALSE

CareerExceptCatches == TRUE

\* str(pred_label)
StrOfLabel(pred) == IF pred.kind = "name" THEN pred.name ELSE ToString(pred.label)

\* enc_target.inverse_transform([int(pred_label)])[0] raises: int() of a
\* role name, a label out of the encoder's classes, or the encoder itself
InverseRaises(pred, inverse_raises) ==
    \/ pred.kind = "name"
    \/ inverse_raises
    \/ pred.label + 1 \notin DOMAIN EncoderClasses("target_job_title")

\* lines 427-436
ModelPredRole(pred, encs, inverse_raises) ==
    IF "target_job_title" \in DOMAIN encs /\ Truthy(encs["target_job_title"])
    THEN IF InverseRaises(pred, inverse_raises) THEN StrOfLabel(pred)
         ELSE EncoderClasses("target_job_title")[pred.label + 1]
    ELSE StrOfLabel(pred)

Suggestion(role) == [kind |-> "suggestion", text |-> role]

\* st.write("Model's suggestion: -")
SuggestionFailed == [kind |-> "unavailable", text |-> "Model's suggestion: -"]

\* st.write("Model's suggestion: - (model not available)")
SuggestionNoModel ==
    [kind |-> "unavailable",
     text |-> "Model's suggestion: - (model not available)"]

CareerBlock(cm, schema, sc, encs, p, env) ==
    LET attempted  == CareerModelUsable(cm, schema)
        rowBad     == attempted
                        /\ CareerRowRaises(schema.items, encs, env.enc_raises)
        rowOk      == attempted /\ ~rowBad
        row        == CareerRow(schema.items, p, encs)
        useScaler  == rowOk /\ Truthy(sc)
        scalerBad  == useScaler /\ env.scaler_raises
        scalerLost == scalerBad /\ ~CareerScalerExceptCatches
        predicted  == rowOk /\ ~scalerLost
        predictBad == predicted /\ env.predict.kind = "raise"
        answered   == predicted /\ ~predictBad
        decoding   == answered /\ "target_job_title" \in DOMAIN encs
                        /\ Truthy(encs["target_job_title"])
        raised     == rowBad \/ scalerLost \/ predictBad
    IN  [uncaught   |-> raised /\ ~CareerExceptCatches,
         Xin        |-> IF rowOk THEN PyDict(row) ELSE Unbound,
         suggestion |-> IF ~attempted THEN SuggestionNoModel
                        ELSE IF raised THEN SuggestionFailed
                        ELSE Suggestion(ModelPredRole(env.predict, encs,
                                                      env.inverse_raises)),
         log        |-> [attempted      |-> attempted,
                         row_raised     |-> rowBad,
                         scaler_called  |-> useScaler,
                         scaler_raised  |-> scalerBad,
                         predict_called |-> predicted,
                         predict_raised |-> predictBad,
                         decode_called  |-> decoding,
                         decode_raised  |->
                             decoding /\ InverseRaises(env.predict,
                                                       env.inverse_raises),
                         pred_label     |-> IF answered
                                            THEN StrOfLabel(env.predict)
                                            ELSE "",
                         Xin_df         |->
                             IF predicted
                             THEN PyDict(IF useScaler /\ ~scalerBad
                                         THEN ScalerTransform(row) ELSE row)
                             ELSE Unbound]]

(***************************************************************************)
(* Skill gaps, courses, roadmap (lines 449-564)                            *)
(***************************************************************************)
\* the key of the three lookups
\* lookups keyed by the model's suggestion when there is one
LookupRoleFromModel(target, suggestion) ==
    IF suggestion.kind = "suggestion" THEN suggestion.text ELSE target

LookupRole(target, suggestion) == target

(***************************************************************************)
(* One script run from the analyze gate on (lines 235-564)                 *)
(***************************************************************************)
\* if not analyze: st.info(...); st.stop()
Gate ==
    /\ pc = "gate"
    /\ pc' = IF analyze THEN "validate" ELSE "stopped"
    /\ UNCHANGED <<files, artifacts, profile_vars, errors, salary_vars,
                   career_vars, content_vars>>

Validate ==
    /\ pc = "validate"
    /\ errors' = ValidationErrors(Profile)
    /\ certifications' = AcceptedCertifications(certifications)
    /\ pc' = IF errors' # <<>> THEN "stopped" ELSE "salary"
    /\ UNCHANGED <<files, artifacts, analyze, current_job, target_job,
                   education, portfolio_strength, language_proficiency,
                   remote_pref, years_exp, projects_completed, comm_rating,
                   salary_vars, career_vars, content_vars>>

\* st.success(f"... {predicted_salary_inr:,} INR per year") formats an int
SalaryResolution ==
    /\ pc = "salary"
    /\ \E env \in SalaryEnvs(salary_model, feat_salary, scaler, encoders) :
       \E r \in {SalaryBlock(salary_model, feat_salary, scaler, encoders,
                               Profile, env)} :
          LET shows == ~r.uncaught /\ r.salary.type = "int"
          IN  /\ X' = r.X
              /\ predicted_salary_inr' = r.salary
              /\ salary_log' = r.log
              /\ shown_salary' =
                    IF shows THEN [amount |-> r.salary.v, source |-> r.source]
                    ELSE Unbound
              /\ pc' = IF shows THEN "career" ELSE "Exception"
    /\ UNCHANGED <<files, artifacts, profile_vars, errors, career_vars,
                   content_vars>>

CareerPreview ==
    /\ pc = "career"
    /\ \E env \in CareerEnvs(career_model, feat_career, scaler, encoders) :
       \E r \in {CareerBlock(career_model, feat_career, scaler, encoders,
                               Profile, env)} :
              /\ recommended_role' = PrimaryRole(target_job, r.suggestion)
              /\ Xin' = r.Xin
              /\ model_suggestion' = r.suggestion
              /\ career_log' = r.log
              /\ pc' = IF r.uncaught THEN "Exception" ELSE "content"
    /\ UNCHANGED <<files, artifacts, profile_vars, errors, salary_vars,
                   content_vars>>

ContentLookups ==
    /\ pc = "content"
    /\ gaps' = skill_gaps(LookupRole(target_job, model_suggestion))
    /\ courses' = courses_for(LookupRole(target_job, model_suggestion))
    /\ roadmap' = roadmap_for(LookupRole(target_job, model_suggestion))
    /\ pc' = "done"
    /\ UNCHANGED <<files, artifacts, profile_vars, errors, salary_vars,
                   career_vars>>

\* the file system that leaves the given artifacts
FilesOf(sm, cm, sc, encs, fsal, fcar) ==
    LET held(v) == IF v = None THEN AbsentFile ELSE GoodFile(v)
    IN  [n \in PICKLE_FILES \cup JSON_FILES |->
            CASE n = "salary_model.pkl" -> held(sm)
              [] n = "career_recommender.pkl" -> held(cm)
              [] n = "scaler.pkl" -> held(sc)
              [] n = "feature_columns_salary.json" -> held(fsal)
              [] n = "feature_columns_career.json" -> held(fcar)
              [] OTHER ->
                   LET i == CHOOSE i \in DOMAIN ENCODER_FILES :
                                ENCODER_FILES[i].file = n
                   IN  held(Get(encs, ENCODER_FILES[i].key, None))]

\* the registry holding the first n encoders
EncodersUpTo(n) ==
    [k \in {ENCODER_FILES[i].key : i \in 1..Min(n, Len(ENCODER_FILES))} |->
        PyObject(k)]

\* the artifacts as the loaders return them: None or the loaded object
ArtifactsLoaded ==
    /\ salary_model \in {safe_load_pickle(c) : c \in PickleContents("salary_model.pkl")}
    /\ career_model \in {safe_load_pickle(c) : c \in PickleContents("career_recommender.pkl")}
    /\ scaler \in {safe_load_pickle(c) : c \in PickleContents("scaler.pkl")}
    /\ encoders \in {EncodersUpTo(n) : n \in 0..MaxEncoders}
    /\ feat_salary \in {load_json(c) : c \in JsonContents("feature_columns_salary.json")}
    /\ feat_career \in {load_json(c) : c \in JsonContents("feature_columns_career.json")}
    /\ files = FilesOf(salary_model, career_model, scaler, encoders,
                       feat_salary, feat_career)

\* A script run at the analyze gate: every combination of artifacts, and a
\* profile as the sidebar returns it.
Init ==
    /\ pc = "gate"
    /\ ArtifactsLoaded
    /\ analyze \in BOOLEAN
    /\ current_job \in CurrentJobInputs
    /\ target_job \in TargetJobInputs
    /\ education \in EducationInputs
    /\ portfolio_strength \in PortfolioInputs
    /\ certifications \in CertificationInputs
    /\ language_proficiency \in LanguageInputs
    /\ remote_pref \in RemoteInputs
    /\ years_exp \in {0, MaxYears}
    /\ projects_completed = ProjectsSample
    /\ comm_rating = CommSample
    /\ RequestUntouched

Next == Gate \/ Validate \/ SalaryResolution \/ CareerPreview \/ ContentLookups

Spec == Init /\ [][Next]_vars

\* Submitted requests: analyze pressed, the selectors that have no bearing
\* on the artifacts' calls chosen, the others as the sidebar returns them.
InitSubmitted ==
    /\ Init
    /\ analyze
    /\ current_job = "Product Manager"
    /\ education = "MBA"
    /\ portfolio_strength = "High"
    /\ language_proficiency = "Beginner"

\* the script runs its statements one after the other to the end
FairSpec == InitSubmitted /\ [][Next]_vars /\ WF_vars(Next)

(***************************************************************************)
(* The fallbacks alone: no artifact present, every role (also one no table *)
(* knows) and every number of years                                        *)
(***************************************************************************)
InitFallback ==
    /\ pc = "salary"
    /\ salary_model = None /\ career_model = None /\ scaler = None
    /\ encoders = EmptyDict /\ feat_salary = None /\ feat_career = None
    /\ files = FilesOf(None, None, None, EmptyDict, None, None)
    /\ analyze = TRUE
    /\ current_job = "Product Manager"
    /\ target_job \in Range(ROLE_KEYS) \cup {UnknownRole}
    /\ education = "MBA"
    /\ portfolio_strength = "High"
    /\ certifications = "None"
    /\ language_proficiency = "Beginner"
    /\ remote_pref = "Remote"
    /\ years_exp \in 0..MaxYears
    /\ projects_completed = ProjectsSample
    /\ comm_rating = CommSample
    /\ RequestUntouched

NextFallback == SalaryResolution \/ CareerPreview \/ ContentLookups

SpecFallback == InitFallback /\ [][NextFallback]_vars

(***************************************************************************)
(* Claims                                                                  *)
(***************************************************************************)
AfterSalary == pc \in {"career", "content", "done"}

AfterCareer == pc \in {"content", "done"}

\* the message validation gives for each field it rejects at its placeholder
FIELD_MESSAGE ==
    ("current_job" :> "Choose your current job.")
    @@ ("target_job" :> "Choose your target job.")
    @@ ("education" :> "Select your education level.")
    @@ ("portfolio_strength" :> "Select portfolio strength.")
    @@ ("language_proficiency" :> "Select language proficiency.")
    @@ ("remote_pref" :> "Select remote preference.")

\* the selector fields of the submitted profile still at their placeholder
PlaceholderFields ==
    {f \in {"current_job", "target_job", "education", "portfolio_strength",
            "certifications", "language_proficiency", "remote_pref"} :
        Profile[f] \in {"Select current job", "Select target job",
                        "Select education", "Select..."}}

NothingComputed ==
    /\ X = Unbound /\ predicted_salary_inr = Unbound
    /\ salary_log = NoSalaryLog /\ shown_salary = Unbound
    /\ recommended_role = "" /\ Xin = Unbound
    /\ model_suggestion = NoSuggestion /\ career_log = NoCareerLog
    /\ gaps = <<>> /\ courses = <<>> /\ roadmap = NoRoadmap

\* C1 as stated: validation of a profile with any of the seven selector
\* fields at its placeholder reports a message for that field and stops the
\* request.
C1_AnyPlaceholderStops ==
    [][(pc = "validate" /\ PlaceholderFields # {}) =>
          /\ pc' = "stopped"
          /\ \A f \in PlaceholderFields :
                f \in DOMAIN FIELD_MESSAGE
                  /\ FIELD_MESSAGE[f] \in Range(errors')]_vars

\* C1 as amended: validation of a profile with any of current job, target
\* job, education, portfolio strength, language proficiency or remote
\* preference at its placeholder reports that field's message and stops the
\* request with nothing computed; a placeholder certifications value is
\* replaced by "None", is not reported and does not by itself stop the
\* request.
C1_RequiredPlaceholderStops ==
    /\ [](pc = "stopped" => NothingComputed)
    /\ [][pc = "validate" =>
            /\ \A f \in PlaceholderFields \cap DOMAIN FIELD_MESSAGE :
                  FIELD_MESSAGE[f] \in Range(errors') /\ pc' = "stopped"
            /\ Range(errors') =
                  {FIELD_MESSAGE[f] :
                      f \in PlaceholderFields \cap DOMAIN FIELD_MESSAGE}
            /\ (PlaceholderFields \subseteq {"certifications"}
                  => pc' = "salary")
            /\ ("certifications" \in PlaceholderFields
                  => certifications' = "None")]_vars

C1_Witness ==
    /\ pc = "stopped" /\ analyze
    /\ Range(errors) = {"Select remote preference."}
    /\ certifications = "None"

\* C2 as stated: the load phase never fails the caller.
C2_LoadNeverFails == pc # "NameError"

\* C3: salary resolution never raises and ends in exactly one of the two
\* states, model-derived (predict answered and its value converted) or
\* heuristic, with an integer INR amount shown; when the salary model or its
\* schema is missing it ends heuristic with no feature row built and no
\* scaler or predict call made.
C3_SalaryTerminal ==
    /\ ~(pc = "Exception" /\ shown_salary = Unbound)
    /\ AfterSalary =>
         /\ shown_salary # Unbound
         /\ shown_salary.source \in {"ModelDerivedSalary", "HeuristicSalary"}
         /\ shown_salary.amount \in Int
         /\ predicted_salary_inr = PyInt(shown_salary.amount)
         /\ shown_salary.source = "ModelDerivedSalary"
              <=> /\ salary_log.predict_called
                  /\ ~salary_log.predict_raised
                  /\ ~salary_log.convert_raised
         /\ shown_salary.source = "HeuristicSalary"
              => shown_salary.amount = HeuristicSalary(target_job, years_exp)
         /\ (~Truthy(salary_model) \/ ~Truthy(feat_salary))
              => /\ shown_salary.source = "HeuristicSalary"
                 /\ salary_log = NoSalaryLog
                 /\ X = Unbound

C3_Witness ==
    /\ pc = "career"
    /\ salary_log.scaler_raised /\ salary_log.convert_raised
    /\ shown_salary.source = "HeuristicSalary"

QuietSalaryEnv ==
    [enc_raises |-> {}, scaler_raises |-> FALSE,
     predict |-> [kind |-> "raise", q |-> 0]]

\* what salary resolution gives the profile when no salary model was loaded,
\* for each schema, scaler and encoder registry at hand
NoModelSalaries ==
    {SalaryBlock(None, fs, sc, encs, Profile, QuietSalaryEnv).salary :
        fs \in {None, feat_salary}, sc \in {None, scaler},
        encs \in {EmptyDict, encoders}}

\* C4: when the salary model's predict raises, the estimate shown is the
\* heuristic one and equals the estimate the same profile gets with no
\* salary model loaded, whatever the encoders, scaler and schema hold.
C4_PredictRaiseEqualsNoModel ==
    (AfterSalary /\ salary_log.predict_raised) =>
        /\ shown_salary.source = "HeuristicSalary"
        /\ NoModelSalaries = {PyInt(shown_salary.amount)}

C4_Witness ==
    /\ pc = "career" /\ salary_log.predict_raised
    /\ salary_log.enc_failed # {} /\ Truthy(scaler)

\* base(role) * (1 + min(years, 10) * 0.06) truncated, in exact arithmetic
ExactHeuristic(role, years) ==
    (Get(BASE_BY_ROLE_INR, role, 450000) * (100 + 6 * Min(years, 10))) \div 100

\* C5 as stated: the heuristic salary is trunc(base(role) * (1 + min(years,
\* 10) * 0.06)), base 450,000 for a role not in the table.
C5_HeuristicExact ==
    (AfterSalary /\ shown_salary.source = "HeuristicSalary") =>
        shown_salary.amount = ExactHeuristic(target_job, years_exp)

FiveStages(r) ==
    /\ DOMAIN r = {"Assess", "Learn", "Build", "Profile", "Apply"}
    /\ \A stage \in DOMAIN r : r[stage] # ""

\* C6: for every role of the selector and for a role no table knows, the
\* skill gaps, the courses and the roadmap looked up are non-empty, the
\* roadmap has the five stages Assess, Learn, Build, Profile, Apply, and a
\* role absent from a table gets that table's "Data Scientist" entry.
C6_ContentNonEmpty ==
    pc = "done" =>
        /\ gaps # <<>> /\ courses # <<>> /\ FiveStages(roadmap)
        /\ target_job \in Range(target_job_options) \ {"Select target job"}
             => /\ gaps = ROLE_SKILL_GAPS[target_job]
                /\ roadmap = ROLE_ROADMAP[target_job]
        /\ target_job \notin DOMAIN ROLE_SKILL_GAPS
             => gaps = ROLE_SKILL_GAPS["Data Scientist"]
        /\ target_job \notin DOMAIN ROLE_COURSES_LITERAL
             => courses = ROLE_COURSES_LITERAL["Data Scientist"]
        /\ target_job \in DOMAIN ROLE_COURSES_LITERAL
             => courses = ROLE_COURSES_LITERAL[target_job]
        /\ target_job \notin DOMAIN ROLE_ROADMAP
             => roadmap = ROLE_ROADMAP["Data Scientist"]

C6_Witness == pc = "done" /\ target_job = UnknownRole /\ gaps # <<>>

\* C7: the primary recommended role is the user's target role, and the
\* skill gaps, courses and roadmap are those of the target role, whatever
\* the career model suggests.
C7_PrimaryIsTarget ==
    /\ AfterCareer => recommended_role = target_job
    /\ pc = "done" =>
         /\ gaps = Get(ROLE_SKILL_GAPS, target_job,
                       ROLE_SKILL_GAPS["Data Scientist"])
         /\ courses = Get(ROLE_COURSES, target_job,
                          ROLE_COURSES["Data Scientist"])
         /\ roadmap = Get(ROLE_ROADMAP, target_job,
                          ROLE_ROADMAP["Data Scientist"])

C7_Witness ==
    /\ pc = "done"
    /\ model_suggestion = Suggestion("Frontend Engineer")
    /\ recommended_role = "Product Manager"

CareerFailure ==
    \/ career_log.row_raised \/ career_log.scaler_raised
    \/ career_log.predict_raised \/ career_log.decode_raised

\* C8 as stated: any failure inside the career preview (encoder transform,
\* scaler, predict, inverse decoding) gives the "no suggestion available"
\* result and never an error.
C8_AnyFailureNoSuggestion ==
    /\ ~(pc = "Exception" /\ shown_salary # Unbound)
    /\ (AfterCareer /\ CareerFailure) => model_suggestion.kind = "unavailable"

\* C8 as amended: no failure inside the career preview raises an error; a
\* failing encoder transform or a failing predict gives the "no suggestion
\* available" result, a failing scaler is passed over (the unscaled row is
\* predicted) and a failing inverse decoding shows the predicted label as
\* text, so that a suggestion is still shown.
C8_PreviewFailures ==
    /\ ~(pc = "Exception" /\ shown_salary # Unbound)
    /\ AfterCareer =>
         /\ (career_log.row_raised \/ career_log.predict_raised)
              => model_suggestion = SuggestionFailed
         /\ ~career_log.attempted => model_suggestion.kind = "unavailable"
         /\ (career_log.attempted /\ ~career_log.row_raised
                /\ ~career_log.predict_raised)
              => model_suggestion.kind = "suggestion"
         /\ career_log.scaler_raised
              => /\ career_log.predict_called
                 /\ career_log.Xin_df = Xin
         /\ career_log.decode_raised
              => model_suggestion = Suggestion(career_log.pred_label)

C8_Witness ==
    /\ pc = "content"
    /\ career_log.scaler_raised /\ career_log.decode_raised
    /\ model_suggestion.kind = "suggestion"

CompleteResult ==
    /\ shown_salary # Unbound /\ shown_salary.amount \in Int
    /\ recommended_role = target_job
    /\ model_suggestion.kind \in {"suggestion", "unavailable"}
    /\ gaps # <<>> /\ courses # <<>> /\ FiveStages(roadmap)

PassOrder ==
    {<<"gate", "validate">>, <<"gate", "stopped">>,
     <<"validate", "stopped">>, <<"validate", "salary">>,
     <<"salary", "career">>, <<"career", "content">>,
     <<"content", "done">>}

PassStep == <<pc, pc'>> \in PassOrder

\* C9: every request that passes validation eventually has the complete
\* result set (salary, primary role, preview or unavailable, skill gaps,
\* courses, five-stage roadmap), the steps running in the order validation,
\* salary resolution, career preview, content lookups, for every
\* combination of missing artifacts and of encoder, scaler and model
\* failures.
C9_CompletePass ==
    /\ (pc = "salary") ~> (pc = "done" /\ CompleteResult)
    /\ [][PassStep]_vars

C9_Witness ==
    /\ pc = "done" /\ CompleteResult
    /\ salary_log.predict_raised /\ career_log.row_raised

NumericRow(row, keys) ==
    /\ row # Unbound
    /\ DOMAIN row.d = keys
    /\ \A k \in keys : row.d[k] \in Int

SalaryRowBound ==
    AfterSalary /\ salary_log.attempted =>
        /\ NumericRow(X, Range(feat_salary.items) \ {"estimated_salary_usd"})
        /\ \A k \in salary_log.enc_failed : X.d[k] = 0

\* C10 as stated: for both tasks, with model and schema at hand, the row
\* binds exactly the schema's features minus the target column
\* (estimated_salary_usd, target_job_title) to numbers, an encoder failure
\* making its field zero and not failing the row.
C10_BothRowsBound ==
    /\ SalaryRowBound
    /\ AfterCareer /\ career_log.attempted =>
         /\ NumericRow(Xin, Range(feat_career.items) \ {"target_job_title"})
         /\ ~career_log.row_raised

\* C10 as amended: with model and schema at hand, the salary row binds
\* exactly the schema's features minus estimated_salary_usd to numbers, an
\* encoder failure making its field zero; the career row binds every
\* feature of its schema to a number, target_job_title included (as zero),
\* unless the current_job_title encoder's transform fails, which abandons
\* the row and leaves the preview unavailable.
C10_RowsBound ==
    /\ SalaryRowBound
    /\ AfterCareer /\ career_log.attempted =>
         /\ ~career_log.row_raised
              => /\ NumericRow(Xin, Range(feat_career.items))
                 /\ "target_job_title" \in DOMAIN Xin.d
                      => Xin.d["target_job_title"] = 0
         /\ career_log.row_raised
              => /\ Xin = Unbound
                 /\ ~career_log.predict_called
                 /\ model_suggestion = SuggestionFailed

C10_Witness ==
    /\ pc = "content"
    /\ salary_log.enc_failed # {}
    /\ career_log.attempted /\ ~career_log.row_raised
    /\ "target_job_title" \in DOMAIN Xin.d

\* the profile value each categorical feature of the salary schema encodes
CategoricalValue ==
    ("current_job_title" :> current_job)
    @@ ("target_job_title" :> target_job)
    @@ ("education_level" :> education)
    @@ ("portfolio_strength" :> portfolio_strength)
    @@ ("certifications" :> certifications)
    @@ ("language_proficiency" :> language_proficiency)
    @@ ("remote_work_preference" :> remote_pref)

\* the value of a categorical feature when no encoder is registered for it
FixedRuleValue ==
    ("current_job_title" :> 0) @@ ("target_job_title" :> 0)
    @@ ("education_level" :> 0)
    @@ ("portfolio_strength" :> Get(PORTFOLIO_MAPPING, portfolio_strength, 1))
    @@ ("certifications" :> IF certifications = "None" THEN 0 ELSE 1)
    @@ ("language_proficiency" :>
            Get(LANGUAGE_MAPPING, language_proficiency, 1))
    @@ ("remote_work_preference" :> Get(REMOTE_MAPPING, remote_pref, 0))

EncoderRegistered(f) == f \in DOMAIN encoders /\ Truthy(encoders[f])

\* C11 as stated: in the salary row every categorical feature with an
\* encoder registered under its name (portfolio_strength, certifications,
\* language_proficiency and remote_work_preference included) holds the
\* encoder's transform of the profile value, or 0 if the transform fails;
\* the fixed mapping or rule is used only when no encoder is registered.
C11_EncoderPrecedence ==
    (AfterSalary /\ salary_log.attempted) =>
        \A f \in DOMAIN X.d \cap DOMAIN CategoricalValue :
            IF EncoderRegistered(f)
            THEN X.d[f] \in {0, EncoderTransform(f, CategoricalValue[f])}
                  /\ (f \in salary_log.enc_failed => X.d[f] = 0)
            ELSE X.d[f] = FixedRuleValue[f]

\* C12: in salary resolution with model and schema at hand, a registered
\* scaler whose transform raises does not stop the attempt: predict is
\* still called, on the unscaled row exactly as the feature builder made
\* it, and a prediction that succeeds gives the model-derived salary, the
\* prediction times 82 truncated, not the heuristic.
C12_ScalingBestEffort ==
    (AfterSalary /\ salary_log.scaler_raised) =>
        /\ salary_log.attempted /\ Truthy(scaler)
        /\ salary_log.predict_called
        /\ salary_log.X_df = X
        /\ salary_log.salary_usd # None
             => /\ shown_salary.source = "ModelDerivedSalary"
                /\ shown_salary.amount =
                      (salary_log.salary_usd.quarters * 82) \div 4

C12_Witness ==
    /\ pc = "career"
    /\ salary_log.scaler_raised
    /\ salary_log.salary_usd # None
    /\ shown_salary = [amount |-> 20, source |-> "ModelDerivedSalary"]

====
